---- MODULE Spec2Model ----
(***************************************************************************)
(* A model of dtslint's "expect" rule (src/rules/expectRule.ts): the       *)
(* assertion scanner, the diagnostic reconciler, the node matcher, the     *)
(* type normalizer, the checker instance cache and the version search.     *)
(*                                                                         *)
(* Representation of text.                                                 *)
(*  - A rendered type is a sequence of symbols: the atoms "A", "B", "C",   *)
(*    the parentheses "(" and ")", and the two separators "|" and "&",     *)
(*    which stand for the three-character strings " | " and " & ".         *)
(*  - A source file is the sequence of tokens the scanner returns (with    *)
(*    skipTrivia = false).  A token occupies one character, except a       *)
(*    multi-line token (a template literal holding one line break), which  *)
(*    occupies three, the middle one being the line break.                 *)
(***************************************************************************)
EXTENDS Integers, Sequences, FiniteSets, TLC

VARIABLES
    \* ---- one pipeline run (walk) ----
    text,                  \* sourceFile.text, as its token sequence
    isDeclarationFile,     \* sourceFile.isDeclarationFile
    diagnostics,           \* ts.getPreEmitDiagnostics(program, sourceFile)
    nodes,                 \* the syntax tree of sourceFile, with the checker's types
    pc,                    \* position of the run
    tokIdx,                \* index of the token scanner.scan() returns next
    prevTokenPos,          \* parseAssertions: prevTokenPos
    curLine,               \* parseAssertions: curLine
    line,                  \* parseAssertions: line of the last directive (-1: none yet)
    errorLines,            \* Assertions.errorLines
    typeAssertions,        \* Assertions.typeAssertions (line -> expected text)
    duplicates,            \* Assertions.duplicates
    seenDiagnosticsOnLine, \* walk: seenDiagnosticsOnLine
    failures,              \* the failures added to ctx, in order
    \* ---- the version search (applyWithProgram) ----
    lintProgram,           \* the host program applyWithProgram is given
    olderInstalls,         \* options.olderInstalls, as version names, oldest first
    programs,              \* version name -> what a program of that version reports
    spc,                   \* position of applyWithProgram
    i,                     \* the backward scan's loop variable
    runs,                  \* the getFailures calls made, in order
    programCache,          \* programCache: host program -> (version name -> program)
    newProgram,            \* getProgram: the program the last call returned
    created,               \* the createProgram calls made, in order
    result,                \* the failures applyWithProgram returns
    \* ---- the type normalizer applied to a rendered type ----
    typeString,            \* checker.typeToString(type, ...)
    reordered,             \* the same type with its members in another order
    normalized,            \* fixupUnions of typeString, then of that result, ...
    normalizedReordered    \* fixupUnions of reordered

walkVars == <<text, isDeclarationFile, diagnostics, nodes, pc, tokIdx, prevTokenPos,
              curLine, line, errorLines, typeAssertions, duplicates,
              seenDiagnosticsOnLine, failures>>
searchVars == <<lintProgram, olderInstalls, programs, spc, i, runs, programCache,
                newProgram, created, result>>
normVars == <<typeString, reordered, normalized, normalizedReordered>>
vars == <<walkVars, searchVars, normVars>>

(***************************************************************************)
(* Bounds of the model.                                                    *)
(***************************************************************************)
MaxTokens == 5
MaxWalkTokens == 4
MaxMatchTokens == 3
MaxDiagnostics == 2
MaxNodes == 3
MaxVersions == 3
MaxPrograms == 3
MaxTypeLen == 7
MaxPasses == 3

(***************************************************************************)
(* Type normalizer: fixupUnions, fixupIntersections.                       *)
(***************************************************************************)

\* The UTF-16 code unit that decides a comparison at a symbol: a separator
\* starts with a space.
CharCode(c) ==
    CASE c = "&" -> 32
      [] c = "|" -> 32
      [] c = "(" -> 40
      [] c = ")" -> 41
      [] c = "A" -> 65
      [] c = "B" -> 66
      [] c = "C" -> 67

\* The second code unit of a separator ('&' is 38, '|' is 124); 0 for the rest.
SecondCode(c) == CASE c = "&" -> 38 [] c = "|" -> 124 [] OTHER -> 0

\* a < b in the order Array.prototype.sort() uses by default (code units).
RECURSIVE StrLess(_, _)
StrLess(a, b) ==
    IF b = <<>> THEN FALSE
    ELSE IF a = <<>> THEN TRUE
    ELSE IF Head(a) = Head(b) THEN StrLess(Tail(a), Tail(b))
    ELSE IF CharCode(Head(a)) # CharCode(Head(b))
         THEN CharCode(Head(a)) < CharCode(Head(b))
         ELSE SecondCode(Head(a)) < SecondCode(Head(b))

\* String.prototype.split(sep) for a separator that is one symbol.
RECURSIVE Split(_, _)
Split(s, sep) ==
    IF \A k \in 1..Len(s) : s[k] # sep THEN <<s>>
    ELSE LET k == CHOOSE j \in 1..Len(s) :
                      s[j] = sep /\ \A m \in 1..(j - 1) : s[m] # sep
         IN  <<SubSeq(s, 1, k - 1)>> \o Split(SubSeq(s, k + 1, Len(s)), sep)

\* Array.prototype.join(sep).
RECURSIVE Join(_, _)
Join(parts, sep) ==
    IF Len(parts) = 0 THEN <<>>
    ELSE IF Len(parts) = 1 THEN parts[1]
    ELSE parts[1] \o <<sep>> \o Join(Tail(parts), sep)

RECURSIVE InsertSorted(_, _)
InsertSorted(x, sorted) ==
    IF sorted = <<>> THEN <<x>>
    ELSE IF StrLess(x, Head(sorted)) THEN <<x>> \o sorted
    ELSE <<Head(sorted)>> \o InsertSorted(x, Tail(sorted))

\* Array.prototype.sort() of strings.
RECURSIVE Sort(_)
Sort(parts) ==
    IF parts = <<>> THEN <<>>
    ELSE InsertSorted(parts[Len(parts)], Sort(SubSeq(parts, 1, Len(parts) - 1)))

\* Faulty variant of fixupIntersections: the members are left as they are.
fixupIntersectionsKeep(s) == s

RECURSIVE fixupIntersections(_)
fixupIntersections(s) ==
    IF Len(s) >= 1 /\ s[1] = "(" /\ s[Len(s)] = ")"
    THEN <<"(">> \o fixupIntersections(SubSeq(s, 2, Len(s) - 1)) \o <<")">>
    ELSE Join(Sort(Split(s, "&")), "&")

MapFixup(parts) == [k \in 1..Len(parts) |-> fixupIntersections(parts[k])]

fixupUnions(s) == Join(Sort(MapFixup(Split(s, "|"))), "|")

(***************************************************************************)
(* Source text: tokens, positions and line starts.                         *)
(***************************************************************************)

\* SyntaxKind of the tokens the model distinguishes. "Token" is any token
\* that is neither trivia nor a comment; "MultiLineToken" is such a token
\* holding a line break; "ExpectType"/"ExpectError" are single-line comments
\* matching the directive pattern, "Comment" one that does not match it.
TokenKinds == {"WhitespaceTrivia", "NewLineTrivia", "Token", "MultiLineToken",
               "MultiLineCommentTrivia", "Comment", "ExpectType", "ExpectError"}

SingleLineComments == {"Comment", "ExpectType", "ExpectError"}

Tok(kind) == [kind |-> kind, expected |-> <<>>]
ExpectTypeTok(expected) == [kind |-> "ExpectType", expected |-> expected]

\* Characters a token occupies.
TokLen(t) == IF t.kind = "MultiLineToken" THEN 3 ELSE 1

\* Offset, inside the token, of the line break it holds (-1: none).
BreakAt(t) ==
    CASE t.kind = "NewLineTrivia" -> 0
      [] t.kind = "MultiLineToken" -> 1
      [] OTHER -> -1

\* scanner.getTokenPos() of the k-th token (k from 1); the text's length for
\* k = Len(txt) + 1.
RECURSIVE TokenPos(_, _)
TokenPos(txt, k) == IF k <= 1 THEN 0 ELSE TokenPos(txt, k - 1) + TokLen(txt[k - 1])

\* sourceFile.getLineStarts(): the offset of each line's first character.
RECURSIVE LineStartsFrom(_, _)
LineStartsFrom(txt, k) ==
    IF k > Len(txt) THEN <<>>
    ELSE (IF BreakAt(txt[k]) >= 0
          THEN <<TokenPos(txt, k) + BreakAt(txt[k]) + 1>> ELSE <<>>)
         \o LineStartsFrom(txt, k + 1)

getLineStarts(txt) == <<0>> \o LineStartsFrom(txt, 1)

\* Number of lines of the text: text.split("\n").length.
NumLines(txt) == Len(getLineStarts(txt))

\* lineOfPosition(pos, sourceFile): the last line starting at or before pos.
lineOfPosition(pos, txt) ==
    LET ls == getLineStarts(txt)
    IN  (CHOOSE k \in 1..Len(ls) :
             ls[k] <= pos /\ \A m \in (k + 1)..Len(ls) : ls[m] > pos) - 1

\* /\$Expect(Type|Error)/.test(sourceFile.text)
HasExpectText(txt) ==
    \E k \in 1..Len(txt) : txt[k].kind \in {"ExpectType", "ExpectError"}

\* A token sequence a scanner can return: a single-line comment runs to the
\* end of its line, and adjacent whitespace is one token.
WellFormed(txt) ==
    \A k \in 1..(Len(txt) - 1) :
        /\ txt[k].kind \in SingleLineComments => txt[k + 1].kind = "NewLineTrivia"
        /\ ~(txt[k].kind = "WhitespaceTrivia" /\ txt[k + 1].kind = "WhitespaceTrivia")

SeqsUpTo(S, n) == UNION {[1..k -> S] : k \in 0..n}

Texts(toks, n) == {txt \in SeqsUpTo(toks, n) : WellFormed(txt)}

(***************************************************************************)
(* Assertion scanner: parseAssertions.                                     *)
(***************************************************************************)

\* The scanner's state before the first scan() call.
ScanInit ==
    [prevTokenPos |-> -1, curLine |-> 0, line |-> -1,
     errorLines |-> <<>>, typeAssertions |-> <<>>, duplicates |-> <<>>]

\* getLine: "while (lineStarts[curLine + 1] <= pos) curLine++".
RECURSIVE AdvanceLine(_, _, _)
AdvanceLine(ls, cur, pos) ==
    IF cur + 2 <= Len(ls) /\ ls[cur + 2] <= pos
    THEN AdvanceLine(ls, cur + 1, pos) ELSE cur

isFirstTokenOnLine(ls, cur, prev) == ls[cur + 1] > prev

\* getLine(pos): the new curLine and the line the directive applies to.
getLine(st, ls, pos) ==
    LET cur == AdvanceLine(ls, st.curLine, pos)
    IN  [curLine |-> cur,
         line |-> IF isFirstTokenOnLine(ls, cur, st.prevTokenPos) THEN cur + 1 ELSE cur]

\* A Set<number> and a Map<number, string> keep insertion order: errorLines
\* is a sequence of lines without repetition, typeAssertions a sequence of
\* [line, expected] entries with distinct lines.
Range(q) == {q[k] : k \in 1..Len(q)}
SetAdd(q, x) == IF x \in Range(q) THEN q ELSE Append(q, x)
MapKeys(m) == [k \in 1..Len(m) |-> m[k].line]
MapHas(m, ln) == \E k \in 1..Len(m) : m[k].line = ln
MapGet(m, ln) == m[CHOOSE k \in 1..Len(m) : m[k].line = ln].expected
MapDelete(m, ln) == SelectSeq(m, LAMBDA e : e.line # ln)
MapSet(m, ln, v) ==
    IF MapHas(m, ln)
    THEN [k \in 1..Len(m) |-> IF m[k].line = ln THEN [line |-> ln, expected |-> v] ELSE m[k]]
    ELSE Append(m, [line |-> ln, expected |-> v])

\* match[1] === "Error"
RecordExpectError(st, ln) ==
    [st EXCEPT !.duplicates = IF ln \in Range(st.errorLines) THEN Append(@, ln) ELSE @,
               !.errorLines = SetAdd(@, ln)]

\* Faulty variant of RecordExpectType: the second directive overwrites the
\* entry instead of deleting it.
RecordExpectTypeKeep(st, ln, expected) ==
    IF MapHas(st.typeAssertions, ln)
    THEN [st EXCEPT !.duplicates = Append(@, ln),
                    !.typeAssertions = MapSet(@, ln, expected)]
    ELSE [st EXCEPT !.typeAssertions = MapSet(@, ln, expected)]

\* else: $ExpectType, with expectedType = match[3]
RecordExpectType(st, ln, expected) ==
    IF MapHas(st.typeAssertions, ln)
    THEN [st EXCEPT !.duplicates = Append(@, ln),
                    !.typeAssertions = MapDelete(@, ln)]
    ELSE [st EXCEPT !.typeAssertions = MapSet(@, ln, expected)]

\* One iteration of the scan loop on a token that is not EndOfFileToken.
ScanToken(st, t, pos, ls) ==
    CASE t.kind = "WhitespaceTrivia" -> st
      [] t.kind = "Comment" -> st
      [] t.kind \in {"ExpectType", "ExpectError"} ->
            LET g  == getLine(st, ls, pos)
                s1 == [st EXCEPT !.curLine = g.curLine, !.line = g.line]
            IN  IF t.kind = "ExpectError"
                THEN RecordExpectError(s1, g.line)
                ELSE RecordExpectType(s1, g.line, t.expected)
      [] OTHER -> [st EXCEPT !.prevTokenPos = pos]

\* The loop from token k on.
RECURSIVE ScanFrom(_, _, _)
ScanFrom(st, txt, k) ==
    IF k > Len(txt) THEN st
    ELSE ScanFrom(ScanToken(st, txt[k], TokenPos(txt, k), getLineStarts(txt)), txt, k + 1)

parseAssertions(txt) == ScanFrom(ScanInit, txt, 1)

(***************************************************************************)
(* Failures, as ctx records them.                                          *)
(***************************************************************************)

\* getIntro(): the versions the message of a diagnostic failure names.
getIntro(versionName, nextHigherVersion) ==
    [versionName |-> versionName, nextHigherVersion |-> nextHigherVersion]

NoIntro == [versionName |-> "", nextHigherVersion |-> ""]

\* ctx.addFailure(start, end, failure) for a whole line.
LineFailure(kind, ln) ==
    [kind |-> kind, line |-> ln, ref |-> 0, intro |-> NoIntro,
     expected |-> <<>>, actual |-> <<>>]

\* addDiagnosticFailure(diagnostic), for the d-th diagnostic of the list.
addDiagnosticFailure(diags, d, txt, versionName, nextHigherVersion) ==
    IF diags[d].file = "sourceFile"
    THEN [kind |-> "Diagnostic", line |-> lineOfPosition(diags[d].start, txt), ref |-> d,
          intro |-> getIntro(versionName, nextHigherVersion),
          expected |-> <<>>, actual |-> <<>>]
    ELSE [kind |-> "DiagnosticOtherFile", line |-> 0, ref |-> d,
          intro |-> getIntro(versionName, nextHigherVersion),
          expected |-> <<>>, actual |-> <<>>]

\* ctx.addFailureAtNode(node, Rule.FAILURE_STRING(expected, actual))
NodeFailure(n, nds, txt, expected, actual) ==
    [kind |-> "TypeMismatch", line |-> lineOfPosition(nds[n].start, txt), ref |-> n,
     intro |-> NoIntro, expected |-> expected, actual |-> actual]

\* addFailureAtLine(line, failure) throws for a line the text does not have:
\* sourceFile.text.split("\n")[line] is undefined.
LineExists(ln, txt) == ln >= 0 /\ ln < NumLines(txt)

\* A loop of addFailureAtLine calls over lns: the failures added, and whether
\* a call threw (which ends the loop, and the run, at that line).
AddFailuresAtLines(fs, lns, kind, txt) ==
    LET bad == {k \in 1..Len(lns) : ~LineExists(lns[k], txt)}
        upto == IF bad = {} THEN Len(lns)
                ELSE (CHOOSE k \in bad : \A m \in bad : k <= m) - 1
    IN  [thrown |-> bad # {},
         failures |-> fs \o [k \in 1..upto |-> LineFailure(kind, lns[k])]]

(***************************************************************************)
(* Diagnostic reconciler: the loops of walk over diagnostics, errorLines.  *)
(***************************************************************************)

\* "Normal file": every diagnostic is a failure.
AllDiagnosticFailures(diags, txt, versionName, nextHigherVersion) ==
    [d \in 1..Len(diags) |-> addDiagnosticFailure(diags, d, txt, versionName, nextHigherVersion)]

\* const line = lineOfPosition(diagnostic.start!, sourceFile)
DiagnosticLine(diag, txt) == lineOfPosition(diag.start, txt)

\* seenDiagnosticsOnLine after the loop over diagnostics.
SeenLines(diags, txt) == {DiagnosticLine(diags[d], txt) : d \in 1..Len(diags)}

\* Faulty variant of IsUnexpected: no diagnostic is reported.
IsUnexpectedNever(diag, errLines, txt) == FALSE

\* if (!errorLines.has(line)) addDiagnosticFailure(diagnostic)
IsUnexpected(diag, errLines, txt) == DiagnosticLine(diag, txt) \notin Range(errLines)

RECURSIVE UnexpectedFrom(_, _, _, _, _, _)
UnexpectedFrom(diags, d, errLines, txt, versionName, nextHigherVersion) ==
    IF d > Len(diags) THEN <<>>
    ELSE (IF IsUnexpected(diags[d], errLines, txt)
          THEN <<addDiagnosticFailure(diags, d, txt, versionName, nextHigherVersion)>>
          ELSE <<>>)
         \o UnexpectedFrom(diags, d + 1, errLines, txt, versionName, nextHigherVersion)

\* for (const line of errorLines) if (!seenDiagnosticsOnLine.has(line)) ...
MissingErrorLines(errLines, seen) == SelectSeq(errLines, LAMBDA ln : ln \notin seen)

(***************************************************************************)
(* Node matcher: getExpectTypeFailures.                                    *)
(*                                                                         *)
(* The syntax tree is a sequence of nodes; nds[n].parent is the index of   *)
(* the parent (0: the SourceFile), children are visited in index order.    *)
(* An ExpressionStatement has one child, its expression.  nds[n].type is   *)
(* checker.typeToString(checker.getTypeAtLocation(node), ..NoTruncation).  *)
(***************************************************************************)

\* The indices in S, ascending.
RECURSIVE Ascending(_)
Ascending(S) ==
    IF S = {} THEN <<>>
    ELSE LET m == CHOOSE x \in S : \A y \in S : x <= y
         IN  <<m>> \o Ascending(S \ {m})

\* ts.forEachChild(node, ...): the children of node n (0: the SourceFile).
Children(nds, n) == Ascending({k \in 1..Len(nds) : nds[k].parent = n})

\* (node as ExpressionStatement).expression
Expression(nds, n) == Children(nds, n)[1]

\* The node whose type is asked: an ExpressionStatement is unwrapped.
Unwrap(nds, n) ==
    IF nds[n].kind = "ExpressionStatement" THEN Expression(nds, n) ELSE n

\* const actual = fixupUnions(checker.typeToString(type, ...))
ActualType(nds, n) == fixupUnions(nds[n].type)

\* if (actual !== expected)
IsUnmet(actual, expected) == actual # expected

MatchInit(ta) == [typeAssertions |-> ta, unmetExpectations |-> <<>>, queried |-> <<>>]

\* iterate(node), and the forEachChild loop over a list of children.
RECURSIVE iterate(_, _, _, _)
RECURSIVE IterateAll(_, _, _, _)
iterate(nds, n, st, txt) ==
    LET ln == lineOfPosition(nds[n].start, txt)
    IN  IF MapHas(st.typeAssertions, ln)
        THEN LET expected == MapGet(st.typeAssertions, ln)
                 node     == Unwrap(nds, n)
                 actual   == ActualType(nds, node)
                 s1 == [typeAssertions |-> MapDelete(st.typeAssertions, ln),
                        unmetExpectations |->
                            IF IsUnmet(actual, expected)
                            THEN Append(st.unmetExpectations,
                                        NodeFailure(node, nds, txt, expected, actual))
                            ELSE st.unmetExpectations,
                        queried |-> Append(st.queried, node)]
             IN  IterateAll(nds, Children(nds, node), s1, txt)
        ELSE IterateAll(nds, Children(nds, n), st, txt)
IterateAll(nds, kids, st, txt) ==
    IF kids = <<>> THEN st
    ELSE IterateAll(nds, Tail(kids), iterate(nds, Head(kids), st, txt), txt)

\* getExpectTypeFailures(sourceFile, typeAssertions, checker, ts); the
\* typeAssertions left are unusedAssertions.
getExpectTypeFailures(nds, ta, txt) == IterateAll(nds, Children(nds, 0), MatchInit(ta), txt)

(***************************************************************************)
(* walk: one pipeline run, as a function of what the program reports.      *)
(***************************************************************************)

\* The run up to and including the loop over errorLines.
WalkReconcile(txt, diags, a, versionName, nextHigherVersion) ==
    LET dup == AddFailuresAtLines(<<>>, a.duplicates, "DuplicateAssertion", txt)
        un  == UnexpectedFrom(diags, 1, a.errorLines, txt, versionName, nextHigherVersion)
    IN  IF dup.thrown THEN dup
        ELSE AddFailuresAtLines(dup.failures \o un,
                                MissingErrorLines(a.errorLines, SeenLines(diags, txt)),
                                "ExpectedError", txt)

\* The rest of the run: unmet expectations, then unused assertions.
WalkMatch(txt, nds, a, sofar) ==
    LET m == getExpectTypeFailures(nds, a.typeAssertions, txt)
    IN  AddFailuresAtLines(sofar \o m.unmetExpectations, MapKeys(m.typeAssertions),
                           "AssertionMissingNode", txt)

\* walk(ctx, program, ts, versionName, nextHigherVersion): the failures the
\* run adds, or thrown when addFailureAtLine throws.
walk(txt, isDecl, diags, nds, versionName, nextHigherVersion) ==
    IF isDecl \/ ~HasExpectText(txt)
    THEN [thrown |-> FALSE,
          failures |-> AllDiagnosticFailures(diags, txt, versionName, nextHigherVersion)]
    ELSE LET a == parseAssertions(txt)
             r == WalkReconcile(txt, diags, a, versionName, nextHigherVersion)
         IN  IF r.thrown THEN r ELSE WalkMatch(txt, nds, a, r.failures)

(***************************************************************************)
(* Inputs of a run: texts, diagnostic lists, syntax trees.                 *)
(***************************************************************************)

\* The expected and rendered types the runs draw from.
UnionAB == <<"A", "|", "B">>
UnionBA == <<"B", "|", "A">>
StatementType == <<"C">>
\* The expected texts the directives carry, and the types the checker renders.
TypeTexts == {UnionAB, UnionBA}
NodeTypes == {UnionBA, <<"A">>}

\* Offsets where a token of the text starts that a node or a diagnostic of
\* the file can start at.
CodeStarts(txt) ==
    {TokenPos(txt, k) : k \in {j \in 1..Len(txt) : txt[j].kind \in {"Token", "MultiLineToken"}}}

\* Offsets a diagnostic of another file can carry: any offset the text has
\* a token at.
AnyStarts(txt) == {TokenPos(txt, k) : k \in 1..Len(txt)}

Diagnostics(txt) ==
    [file : {"sourceFile"}, start : CodeStarts(txt)]
        \cup [file : {"other"}, start : AnyStarts(txt)]

\* The ancestors of node n, itself included, and the SourceFile (0).
RECURSIVE Ancestors(_, _)
Ancestors(nds, n) == IF n = 0 THEN {0} ELSE {n} \cup Ancestors(nds, nds[n].parent)

\* A tree the parser can build, its nodes numbered in the order of their
\* start positions (a parent before its children, a subtree before the next
\* sibling): a node's parent is the previous node or one of its ancestors,
\* and no node starts before the previous one.  An ExpressionStatement has at
\* most one child, which starts where it starts.
IsTreePrefix(nds) ==
    \A n \in 1..Len(nds) :
        /\ nds[n].parent \in (IF n = 1 THEN {0} ELSE Ancestors(nds, n - 1))
        /\ n > 1 => nds[n - 1].start <= nds[n].start
        /\ nds[n].kind = "ExpressionStatement" =>
              /\ Len(Children(nds, n)) <= 1
              /\ \A c \in Range(Children(nds, n)) : nds[c].start = nds[n].start
              /\ nds[n].type = StatementType
        /\ nds[n].kind = "Node" => nds[n].type \in NodeTypes

\* Every ExpressionStatement has its expression.
IsTree(nds) ==
    /\ IsTreePrefix(nds)
    /\ \A n \in 1..Len(nds) :
           nds[n].kind = "ExpressionStatement" => Len(Children(nds, n)) = 1

NodeRecords(txt, n) ==
    [parent : 0..(n - 1), start : CodeStarts(txt), kind : {"Node"}, type : NodeTypes]
        \cup [parent : 0..(n - 1), start : CodeStarts(txt),
              kind : {"ExpressionStatement"}, type : {StatementType}]

\* The node sequences of length up to n that are trees but for the
\* ExpressionStatements still without their child.
RECURSIVE TreePrefixes(_, _)
TreePrefixes(txt, n) ==
    IF n = 0 THEN {<<>>}
    ELSE LET shorter == TreePrefixes(txt, n - 1)
         IN  shorter \cup
             {nds \in {Append(t, r) : t \in {u \in shorter : Len(u) = n - 1},
                                      r \in NodeRecords(txt, n)} : IsTreePrefix(nds)}

Trees(txt, n) == {nds \in TreePrefixes(txt, n) : IsTree(nds)}

ScanTokens == {Tok(k) : k \in TokenKinds \ {"ExpectType"}} \cup {ExpectTypeTok(UnionAB)}
DiagTokens == {Tok("Token"), Tok("NewLineTrivia"), Tok("ExpectError")}
MatchTokens == {Tok("Token"), Tok("NewLineTrivia")} \cup {ExpectTypeTok(e) : e \in TypeTexts}

(***************************************************************************)
(* One pipeline run, step by step (walk called with "next" and no          *)
(* nextHigherVersion, as applyWithProgram does without options).           *)
(***************************************************************************)

\* No program returned yet.
NoProgram == [id |-> 0, diagnostics |-> <<>>, nodes |-> <<>>]

\* The normalizer is not applied.
NormIdle ==
    /\ typeString = <<>>
    /\ reordered = <<>>
    /\ normalized = <<>>
    /\ normalizedReordered = <<>>

SearchIdle ==
    /\ lintProgram = "lintProgram"
    /\ olderInstalls = <<>>
    /\ programs = <<>>
    /\ spc = "idle"
    /\ i = 0
    /\ runs = <<>>
    /\ programCache = <<>>
    /\ newProgram = NoProgram
    /\ created = <<>>
    /\ result = <<>>

WalkStartState ==
    /\ pc = "start"
    /\ tokIdx = 1
    /\ prevTokenPos = ScanInit.prevTokenPos
    /\ curLine = ScanInit.curLine
    /\ line = ScanInit.line
    /\ errorLines = ScanInit.errorLines
    /\ typeAssertions = ScanInit.typeAssertions
    /\ duplicates = ScanInit.duplicates
    /\ seenDiagnosticsOnLine = {}
    /\ failures = <<>>

InitScan ==
    /\ text \in Texts(ScanTokens, MaxTokens)
    /\ isDeclarationFile = FALSE
    /\ diagnostics = <<>>
    /\ nodes = <<>>
    /\ WalkStartState
    /\ SearchIdle
    /\ NormIdle

InitDiag ==
    /\ text \in Texts(DiagTokens, MaxWalkTokens)
    /\ isDeclarationFile \in BOOLEAN
    /\ diagnostics \in SeqsUpTo(Diagnostics(text), MaxDiagnostics)
    /\ nodes = <<>>
    /\ WalkStartState
    /\ SearchIdle
    /\ NormIdle

InitMatch ==
    /\ text \in Texts(MatchTokens, MaxMatchTokens)
    /\ isDeclarationFile = FALSE
    /\ diagnostics = <<>>
    /\ nodes \in Trees(text, MaxNodes)
    /\ WalkStartState
    /\ SearchIdle
    /\ NormIdle

scanVars == <<tokIdx, prevTokenPos, curLine, line, errorLines, typeAssertions, duplicates>>
inputVars == <<text, isDeclarationFile, diagnostics, nodes>>

\* The scanner's state, as parseAssertions' locals.
ScanState ==
    [prevTokenPos |-> prevTokenPos, curLine |-> curLine, line |-> line,
     errorLines |-> errorLines, typeAssertions |-> typeAssertions,
     duplicates |-> duplicates]

\* "Normal file": a declaration file, or no $ExpectType/$ExpectError in it.
WalkNormalFile ==
    /\ pc = "start"
    /\ isDeclarationFile \/ ~HasExpectText(text)
    /\ failures' = AllDiagnosticFailures(diagnostics, text, "next", "undefined")
    /\ pc' = "done"
    /\ UNCHANGED <<inputVars, scanVars, seenDiagnosticsOnLine, searchVars, normVars>>

\* A file with assertions: parseAssertions is entered.
WalkParse ==
    /\ pc = "start"
    /\ ~(isDeclarationFile \/ ~HasExpectText(text))
    /\ pc' = "scan"
    /\ UNCHANGED <<inputVars, scanVars, seenDiagnosticsOnLine, failures, searchVars, normVars>>

\* One iteration of the scan loop.
Scan ==
    /\ pc = "scan"
    /\ tokIdx <= Len(text)
    /\ LET st == ScanToken(ScanState, text[tokIdx], TokenPos(text, tokIdx),
                           getLineStarts(text))
       IN  /\ prevTokenPos' = st.prevTokenPos
           /\ curLine' = st.curLine
           /\ line' = st.line
           /\ errorLines' = st.errorLines
           /\ typeAssertions' = st.typeAssertions
           /\ duplicates' = st.duplicates
    /\ tokIdx' = tokIdx + 1
    /\ UNCHANGED <<inputVars, pc, seenDiagnosticsOnLine, failures, searchVars, normVars>>

\* EndOfFileToken: parseAssertions returns.
ScanEndOfFile ==
    /\ pc = "scan"
    /\ tokIdx > Len(text)
    /\ pc' = "duplicates"
    /\ UNCHANGED <<inputVars, scanVars, seenDiagnosticsOnLine, failures, searchVars, normVars>>

\* for (const line of duplicates) addFailureAtLine(...)
WalkDuplicates ==
    /\ pc = "duplicates"
    /\ LET r == AddFailuresAtLines(failures, duplicates, "DuplicateAssertion", text)
       IN  /\ failures' = r.failures
           /\ pc' = IF r.thrown THEN "thrown" ELSE "diagnostics"
    /\ UNCHANGED <<inputVars, scanVars, seenDiagnosticsOnLine, searchVars, normVars>>

\* for (const diagnostic of diagnostics) ...
WalkDiagnostics ==
    /\ pc = "diagnostics"
    /\ seenDiagnosticsOnLine' = SeenLines(diagnostics, text)
    /\ failures' = failures \o UnexpectedFrom(diagnostics, 1, errorLines, text,
                                              "next", "undefined")
    /\ pc' = "errors"
    /\ UNCHANGED <<inputVars, scanVars, searchVars, normVars>>

\* for (const line of errorLines) ...
WalkErrors ==
    /\ pc = "errors"
    /\ LET r == AddFailuresAtLines(failures,
                                   MissingErrorLines(errorLines, seenDiagnosticsOnLine),
                                   "ExpectedError", text)
       IN  /\ failures' = r.failures
           /\ pc' = IF r.thrown THEN "thrown" ELSE "types"
    /\ UNCHANGED <<inputVars, scanVars, seenDiagnosticsOnLine, searchVars, normVars>>

\* getExpectTypeFailures and the loop over unmetExpectations.
WalkTypes ==
    /\ pc = "types"
    /\ LET m == getExpectTypeFailures(nodes, typeAssertions, text)
       IN  /\ typeAssertions' = m.typeAssertions
           /\ failures' = failures \o m.unmetExpectations
    /\ pc' = "unused"
    /\ UNCHANGED <<inputVars, tokIdx, prevTokenPos, curLine, line, errorLines, duplicates,
                   seenDiagnosticsOnLine, searchVars, normVars>>

\* for (const line of unusedAssertions) addFailureAtLine(...)
WalkUnused ==
    /\ pc = "unused"
    /\ LET r == AddFailuresAtLines(failures, MapKeys(typeAssertions),
                                   "AssertionMissingNode", text)
       IN  /\ failures' = r.failures
           /\ pc' = IF r.thrown THEN "thrown" ELSE "done"
    /\ UNCHANGED <<inputVars, scanVars, seenDiagnosticsOnLine, searchVars, normVars>>

WalkNext ==
    \/ WalkNormalFile
    \/ WalkParse
    \/ Scan
    \/ ScanEndOfFile
    \/ WalkDuplicates
    \/ WalkDiagnostics
    \/ WalkErrors
    \/ WalkTypes
    \/ WalkUnused

SpecScan == InitScan /\ [][WalkNext]_vars
SpecDiag == InitDiag /\ [][WalkNext]_vars
SpecMatch == InitMatch /\ [][WalkNext]_vars

(***************************************************************************)
(* Version search: Rule.applyWithProgram with options, and getProgram.     *)
(***************************************************************************)

\* Names of the configured versions, oldest first.
VersionNames == <<"2.0", "2.1", "2.2", "2.3", "2.4", "2.5">>

\* The file the search is run on: "f(); // $ExpectError" and "g();".
SearchText == <<Tok("Token"), Tok("ExpectError"), Tok("NewLineTrivia"), Tok("Token")>>

OnLine0 == [file |-> "sourceFile", start |-> 0]
OnLine1 == [file |-> "sourceFile", start |-> 3]

\* What a program of some version can report for the file: its diagnostics
\* (the file has no $ExpectType, so its tree is left out).
Reports ==
    {[diagnostics |-> d, nodes |-> <<>>] :
         d \in {<<>>, <<OnLine0>>, <<OnLine1>>, <<OnLine0, OnLine1>>}}

InitSearch ==
    /\ text = SearchText
    /\ isDeclarationFile = FALSE
    /\ diagnostics = <<>>
    /\ nodes = <<>>
    /\ pc = "idle"
    /\ tokIdx = 1
    /\ prevTokenPos = ScanInit.prevTokenPos
    /\ curLine = ScanInit.curLine
    /\ line = ScanInit.line
    /\ errorLines = ScanInit.errorLines
    /\ typeAssertions = ScanInit.typeAssertions
    /\ duplicates = ScanInit.duplicates
    /\ seenDiagnosticsOnLine = {}
    /\ failures = <<>>
    /\ lintProgram = "lintProgram"
    /\ olderInstalls \in {SubSeq(VersionNames, 1, n) : n \in 0..MaxVersions}
    /\ programs \in [{"next"} \cup Range(olderInstalls) -> Reports]
    /\ spc = "start"
    /\ i = 0
    /\ runs = <<>>
    /\ programCache = <<>>
    /\ newProgram = NoProgram
    /\ created = <<>>
    /\ result = <<>>
    /\ NormIdle

\* A Map<string, Program>: a sequence of [versionName, program] entries.
CacheHas(cache, versionName) == \E k \in 1..Len(cache) : cache[k].versionName = versionName
CacheGet(cache, versionName) ==
    cache[CHOOSE k \in 1..Len(cache) : cache[k].versionName = versionName].program

\* programCache, a WeakMap<Program, Map<string, Program>>: a sequence of
\* [oldProgram, versionToProgram] entries with distinct host programs.
WeakHas(wm, oldProgram) == \E k \in 1..Len(wm) : wm[k].oldProgram = oldProgram
WeakGet(wm, oldProgram) ==
    wm[CHOOSE k \in 1..Len(wm) : wm[k].oldProgram = oldProgram].versionToProgram
WeakSet(wm, oldProgram, m) ==
    IF WeakHas(wm, oldProgram)
    THEN [k \in 1..Len(wm) |->
              IF wm[k].oldProgram = oldProgram
              THEN [oldProgram |-> oldProgram, versionToProgram |-> m] ELSE wm[k]]
    ELSE Append(wm, [oldProgram |-> oldProgram, versionToProgram |-> m])

\* let versionToProgram = programCache.get(oldProgram); a new Map when it is
\* undefined.
versionToProgram(wm, oldProgram) ==
    IF WeakHas(wm, oldProgram) THEN WeakGet(wm, oldProgram) ELSE <<>>

\* createProgram(configFile, ts): a new program, the n-th one created, which
\* reports what the compiler of that version reports.
createProgram(versionName, n) ==
    [id |-> n, diagnostics |-> programs[versionName].diagnostics,
     nodes |-> programs[versionName].nodes]

\* Faulty variant of IsCached: the cache is never hit.
IsCachedNever(wm, versionName, oldProgram) == FALSE

\* versionToProgram.get(versionName) !== undefined
IsCached(wm, versionName, oldProgram) ==
    CacheHas(versionToProgram(wm, oldProgram), versionName)

\* getProgram(configFile, ts, versionName, oldProgram): programCache after
\* the call, n programs having been created before it.
getProgramCache(wm, versionName, oldProgram, n) ==
    IF IsCached(wm, versionName, oldProgram)
    THEN WeakSet(wm, oldProgram, versionToProgram(wm, oldProgram))
    ELSE WeakSet(wm, oldProgram,
                 Append(versionToProgram(wm, oldProgram),
                        [versionName |-> versionName,
                         program |-> createProgram(versionName, n + 1)]))

\* The program getProgram returns, given programCache after the call.
getProgram(wm, versionName, oldProgram) ==
    CacheGet(versionToProgram(wm, oldProgram), versionName)

\* The state one getProgram call leaves.
GetProgramCall(versionName, oldProgram) ==
    /\ programCache' = getProgramCache(programCache, versionName, oldProgram, Len(created))
    /\ created' = IF IsCached(programCache, versionName, oldProgram) THEN created
                  ELSE Append(created, [oldProgram |-> oldProgram,
                                        versionName |-> versionName])
    /\ newProgram' = getProgram(programCache', versionName, oldProgram)

\* getFailures(versionName, path, nextHigherVersion), given the program
\* getProgram returned.
getFailures(program, versionName, nextHigherVersion) ==
    walk(text, isDeclarationFile, program.diagnostics, program.nodes,
         versionName, nextHigherVersion)

\* The bookkeeping of one getFailures call.
Called(versionName, nextHigherVersion) ==
    /\ runs' = Append(runs, [oldProgram |-> lintProgram, versionName |-> versionName,
                             nextHigherVersion |-> nextHigherVersion])
    /\ GetProgramCall(versionName, lintProgram)

\* Faulty variant of MinInstall: the newest configured version.
MinInstallNewest == olderInstalls[Len(olderInstalls)]

\* const minInstall = options.olderInstalls[0]
MinInstall == olderInstalls[1]

\* Faulty variant of NextFails: the failures of "next" are not looked at.
NextFailsNever(fs) == FALSE

\* if (nextFailures.length) return nextFailures
NextFails(fs) == Len(fs) > 0

\* Faulty variant of AssertHolds: the assertion fails whatever the list holds.
AssertHoldsNever == FALSE

\* assert(options.olderInstalls.length)
AssertHolds == Len(olderInstalls) > 0

\* Faulty variant of HasNoFailures: the oldest version's run never counts as
\* passing.
HasNoFailuresNever(fs) == FALSE

\* if (!minFailures.length) return []
HasNoFailures(fs) == Len(fs) = 0

\* Faulty variant of ScanStart: the scan skips the newest configured version.
ScanStartBelowNewest == Len(olderInstalls) - 2

\* let i = options.olderInstalls.length - 1
ScanStart == Len(olderInstalls) - 1

\* Faulty variant of ScanGoesOn: the loop stops above the oldest version.
ScanGoesOnAboveMin(k) == k >= 1

\* The scan's loop condition, i >= 0.
ScanGoesOn(k) == k >= 0

\* Faulty variant of NextHigherVersion: always "next".
NextHigherAlwaysNext(k) == "next"

\* i === options.olderInstalls.length - 1 ? "next" : options.olderInstalls[i + 1].versionName
NextHigherVersion(k) ==
    IF k = Len(olderInstalls) - 1 THEN "next" ELSE olderInstalls[(k + 1) + 1]

\* const nextFailures = getFailures("next", ...); if (nextFailures.length) return nextFailures
SearchNext ==
    /\ spc = "start"
    /\ Called("next", "undefined")
    /\ LET r == getFailures(newProgram', "next", "undefined")
       IN  IF r.thrown THEN spc' = "walkThrown" /\ result' = result
           ELSE IF NextFails(r.failures) THEN spc' = "done" /\ result' = r.failures
           ELSE spc' = "assert" /\ result' = result
    /\ UNCHANGED <<walkVars, normVars, lintProgram, olderInstalls, programs, i>>

\* assert(options.olderInstalls.length)
SearchAssert ==
    /\ spc = "assert"
    /\ spc' = IF AssertHolds THEN "min" ELSE "AssertionError"
    /\ UNCHANGED <<walkVars, normVars, lintProgram, olderInstalls, programs, i, runs, programCache,
                   newProgram, created, result>>

\* const minFailures = getFailures(minInstall.versionName, ...)
SearchMin ==
    /\ spc = "min"
    /\ Called(MinInstall, "undefined")
    /\ LET r == getFailures(newProgram', MinInstall, "undefined")
       IN  IF r.thrown THEN spc' = "walkThrown" /\ result' = result /\ i' = i
           ELSE IF HasNoFailures(r.failures) THEN spc' = "done" /\ result' = <<>> /\ i' = i
           ELSE spc' = "scan" /\ result' = result /\ i' = ScanStart
    /\ UNCHANGED <<walkVars, normVars, lintProgram, olderInstalls, programs>>

\* One iteration of the backward scan; when the loop ends, the throw.
SearchScan ==
    /\ spc = "scan"
    /\ IF ScanGoesOn(i)
       THEN /\ Called(olderInstalls[i + 1], NextHigherVersion(i))
            /\ LET r == getFailures(newProgram', olderInstalls[i + 1], NextHigherVersion(i))
               IN  IF r.thrown THEN spc' = "walkThrown" /\ result' = result /\ i' = i
                   ELSE IF Len(r.failures) > 0
                   THEN spc' = "done" /\ result' = r.failures /\ i' = i
                   ELSE spc' = "scan" /\ result' = result /\ i' = i - 1
       ELSE /\ spc' = "thrown"
            /\ UNCHANGED <<i, runs, programCache, newProgram, created, result>>
    /\ UNCHANGED <<walkVars, normVars, lintProgram, olderInstalls, programs>>

SearchStep ==
    \/ SearchNext
    \/ SearchAssert
    \/ SearchMin
    \/ SearchScan

SpecSearch == InitSearch /\ [][SearchStep]_vars

(***************************************************************************)
(* The checker instance cache over the getFailures calls of several        *)
(* applyWithProgram invocations (the cache is module state: it outlives an *)
(* invocation).                                                            *)
(***************************************************************************)

\* The host programs applyWithProgram is given.
HostPrograms == {"lintProgram", "otherProgram"}

InitCache ==
    /\ text = SearchText
    /\ isDeclarationFile = FALSE
    /\ diagnostics = <<>>
    /\ nodes = <<>>
    /\ pc = "idle"
    /\ tokIdx = 1
    /\ prevTokenPos = ScanInit.prevTokenPos
    /\ curLine = ScanInit.curLine
    /\ line = ScanInit.line
    /\ errorLines = ScanInit.errorLines
    /\ typeAssertions = ScanInit.typeAssertions
    /\ duplicates = ScanInit.duplicates
    /\ seenDiagnosticsOnLine = {}
    /\ failures = <<>>
    /\ lintProgram \in HostPrograms
    /\ olderInstalls = SubSeq(VersionNames, 1, MaxVersions - 1)
    /\ programs = [v \in {"next"} \cup Range(olderInstalls) |->
                       [diagnostics |-> <<OnLine1>>, nodes |-> <<>>]]
    /\ spc = "getFailures"
    /\ i = 0
    /\ runs = <<>>
    /\ programCache = <<>>
    /\ newProgram = NoProgram
    /\ created = <<>>
    /\ result = <<>>
    /\ NormIdle

\* One getFailures call, of an invocation given the host program oldProgram,
\* for any version: its getProgram call and its pipeline run.
GetFailuresCall ==
    /\ spc = "getFailures"
    \* (the calls are capped: room for MaxPrograms programs and one call more)
    /\ Len(runs) < MaxPrograms + 1
    /\ \E oldProgram \in HostPrograms :
       \E versionName \in {"next"} \cup Range(olderInstalls) :
           /\ lintProgram' = oldProgram
           /\ runs' = Append(runs, [oldProgram |-> oldProgram, versionName |-> versionName,
                                    nextHigherVersion |-> "undefined"])
           /\ GetProgramCall(versionName, oldProgram)
           /\ result' = getFailures(newProgram', versionName, "undefined").failures
    /\ UNCHANGED <<walkVars, normVars, olderInstalls, programs, spc, i>>

SpecCache == InitCache /\ [][GetFailuresCall]_vars

(***************************************************************************)
(* The type normalizer applied to the types a checker renders.             *)
(***************************************************************************)

Atoms == {"A", "B", "C"}

\* The type texts of up to n symbols: an atom, a parenthesized type, a union
\* or an intersection of two types.
RECURSIVE TypeStrings(_)
TypeStrings(n) ==
    IF n <= 0 THEN {}
    ELSE LET shorter == TypeStrings(n - 1)
         IN  shorter
               \cup {<<a>> : a \in Atoms}
               \cup {<<"(">> \o t \o <<")">> : t \in {u \in shorter : Len(u) + 2 <= n}}
               \cup {p[1] \o <<p[3]>> \o p[2] :
                        p \in {q \in shorter \X shorter \X {"|", "&"} :
                                  Len(q[1]) + Len(q[2]) + 1 <= n}}

\* The orders the members of a list can be put in.
Orders(n) == {f \in [1..n -> 1..n] : \A j, k \in 1..n : f[j] = f[k] => j = k}
Perms(q) == {[k \in 1..Len(q) |-> q[f[k]]] : f \in Orders(Len(q))}

IsParenthesized(seg) == Len(seg) >= 2 /\ seg[1] = "(" /\ seg[Len(seg)] = ")"
Inner(seg) == IF IsParenthesized(seg) THEN SubSeq(seg, 2, Len(seg) - 1) ELSE seg

IsIntersectionOfAtoms(t) ==
    /\ Len(t) % 2 = 1
    /\ \A k \in 1..Len(t) : IF k % 2 = 1 THEN t[k] \in Atoms ELSE t[k] = "&"

\* A union of segments, each an intersection of atoms or a parenthesized
\* intersection of atoms.
IsUnionOfIntersections(t) ==
    \A seg \in Range(Split(t, "|")) : IsIntersectionOfAtoms(Inner(seg))

\* The segment with its members in every order.
SegmentReorderings(seg) ==
    {IF IsParenthesized(seg) THEN <<"(">> \o Join(m, "&") \o <<")">> ELSE Join(m, "&") :
         m \in Perms(Split(Inner(seg), "&"))}

\* The union with its members in every order, and the members of each
\* intersection in every order.
Reorderings(t) ==
    LET segs == Split(t, "|")
        n    == Len(segs)
        all  == UNION {SegmentReorderings(segs[k]) : k \in 1..n}
    IN  {Join(m, "|") :
             m \in UNION {Perms(c) :
                             c \in {d \in [1..n -> all] :
                                       \A k \in 1..n : d[k] \in SegmentReorderings(segs[k])}}}

InitNorm ==
    /\ text = <<>>
    /\ isDeclarationFile = FALSE
    /\ diagnostics = <<>>
    /\ nodes = <<>>
    /\ pc = "idle"
    /\ tokIdx = 1
    /\ prevTokenPos = ScanInit.prevTokenPos
    /\ curLine = ScanInit.curLine
    /\ line = ScanInit.line
    /\ errorLines = ScanInit.errorLines
    /\ typeAssertions = ScanInit.typeAssertions
    /\ duplicates = ScanInit.duplicates
    /\ seenDiagnosticsOnLine = {}
    /\ failures = <<>>
    /\ SearchIdle
    /\ typeString \in TypeStrings(MaxTypeLen)
    /\ reordered \in IF IsUnionOfIntersections(typeString)
                     THEN Reorderings(typeString) ELSE {typeString}
    /\ normalized = <<>>
    /\ normalizedReordered = <<>>

\* const actual = fixupUnions(...), for the type and for the reordered type.
Fixup ==
    /\ normalized = <<>>
    /\ typeString # <<>>
    /\ normalized' = <<fixupUnions(typeString)>>
    /\ normalizedReordered' = fixupUnions(reordered)
    /\ UNCHANGED <<walkVars, searchVars, typeString, reordered>>

\* fixupUnions applied to its own result.
FixupAgain ==
    /\ normalized # <<>>
    /\ Len(normalized) < MaxPasses
    /\ normalized' = Append(normalized, fixupUnions(normalized[Len(normalized)]))
    /\ UNCHANGED <<walkVars, searchVars, typeString, reordered, normalizedReordered>>

NormStep == Fixup \/ FixupAgain

SpecNorm == InitNorm /\ [][NormStep]_vars

Init == InitScan \/ InitDiag \/ InitMatch \/ InitSearch \/ InitCache \/ InitNorm

Next == WalkNext \/ SearchStep \/ GetFailuresCall \/ NormStep

Spec == Init /\ [][Next]_vars

(***************************************************************************)
(* Properties.                                                             *)
(***************************************************************************)

\* What the pipeline reports for a version, whichever call runs it.
Reported(versionName) ==
    walk(text, isDeclarationFile, programs[versionName].diagnostics,
         programs[versionName].nodes, versionName, "undefined").failures

Passes(versionName) == Len(Reported(versionName)) = 0

\* Index in olderInstalls of the newest configured version with failures.
Boundary ==
    CHOOSE b \in 1..Len(olderInstalls) :
        /\ ~Passes(olderInstalls[b])
        /\ \A k \in (b + 1)..Len(olderInstalls) : Passes(olderInstalls[k])

\* The entry above index b of the configured list, "next" above the last.
EntryAbove(b) == IF b = Len(olderInstalls) THEN "next" ELSE olderInstalls[b + 1]

ScanEntered == Len(olderInstalls) > 0 /\ Passes("next") /\ ~Passes(olderInstalls[1])

\* C1, as stated: whenever the run against "next" yields no failures, the
\* search returns an empty failure list, whatever the older versions report.
C1_NextPassesGivesEmpty ==
    (spc = "done" /\ Passes("next")) => result = <<>>

\* C1, amended: when the run against "next" yields no failures, the search
\* returns an empty failure list if and only if the oldest configured
\* version yields no failures either.
C1_EmptyIffOldestPasses ==
    (spc = "done" /\ Passes("next")) => (result = <<>> <=> Passes(olderInstalls[1]))

C1_Witness ==
    /\ spc = "done"
    /\ Passes("next")
    /\ Len(olderInstalls) >= 3
    /\ Passes(olderInstalls[1])
    /\ ~Passes(olderInstalls[2])
    /\ result = <<>>

\* C2: when the backward scan is entered, the result is what the newest
\* configured version with failures reports when run with nextHigherVersion
\* set to the entry above it ("next" exactly for the newest configured
\* version); the calls made are "next", the oldest version, then the
\* configured versions from the newest down to that boundary and no further,
\* each with the entry above it as nextHigherVersion.
C2_ScanReturnsBoundary ==
    (spc = "done" /\ ScanEntered) =>
        LET n == Len(olderInstalls)
            b == Boundary
        IN  /\ result = walk(text, isDeclarationFile,
                             programs[olderInstalls[b]].diagnostics,
                             programs[olderInstalls[b]].nodes,
                             olderInstalls[b], EntryAbove(b)).failures
            /\ result # <<>>
            /\ \A k \in 1..Len(result) :
                   result[k].kind \in {"Diagnostic", "DiagnosticOtherFile"} =>
                       result[k].intro = [versionName |-> olderInstalls[b],
                                          nextHigherVersion |-> EntryAbove(b)]
            /\ (EntryAbove(b) = "next") <=> (b = n)
            /\ runs = <<[oldProgram |-> lintProgram, versionName |-> "next",
                         nextHigherVersion |-> "undefined"],
                        [oldProgram |-> lintProgram, versionName |-> olderInstalls[1],
                         nextHigherVersion |-> "undefined"]>>
                      \o [k \in 1..(n - b + 1) |->
                              [oldProgram |-> lintProgram,
                               versionName |-> olderInstalls[n - k + 1],
                               nextHigherVersion |-> EntryAbove(n - k + 1)]]

C2_Witness ==
    /\ spc = "done"
    /\ ScanEntered
    /\ Len(olderInstalls) >= 3
    /\ Boundary = 2
    /\ \E k \in 1..Len(result) : result[k].kind = "Diagnostic"

\* C3: the throw after the backward scan is never reached.
C3_ThrowUnreachable == spc # "thrown"

\* The scan ran every configured version and returned at the oldest one.
C3_Witness ==
    /\ spc = "done"
    /\ Len(olderInstalls) >= 2
    /\ Len(runs) = Len(olderInstalls) + 2
    /\ i = 0
    /\ result # <<>>

\* The run was over a file with assertions and returned its failures.
AssertionRunDone == pc = "done" /\ ~isDeclarationFile /\ HasExpectText(text)

\* Failures of a kind reported at a line.
FailuresAt(kind, ln) ==
    Cardinality({k \in 1..Len(failures) : failures[k].kind = kind /\ failures[k].line = ln})

\* Failures reported for the d-th diagnostic of the list.
FailuresOf(d) ==
    Cardinality({k \in 1..Len(failures) :
                     /\ failures[k].kind \in {"Diagnostic", "DiagnosticOtherFile"}
                     /\ failures[k].ref = d})

\* The pending table parseAssertions returned for the text.
Pending == parseAssertions(text).typeAssertions

\* The nodes whose type the matcher asked for.
Queried == getExpectTypeFailures(nodes, Pending, text).queried

\* C4: a pending expect-type assertion matched to a node gives a TypeMismatch
\* if and only if the normalized expected text differs from the normalized
\* rendered type of the node.
C4_MismatchIffNormalizedDiffer ==
    AssertionRunDone =>
        \A e \in Range(Pending) : \A q \in Range(Queried) :
            lineOfPosition(nodes[q].start, text) = e.line =>
                ((\E k \in 1..Len(failures) :
                      failures[k].kind = "TypeMismatch" /\ failures[k].ref = q)
                 <=> fixupUnions(e.expected) # fixupUnions(nodes[q].type))

\* C5: a line recorded as a duplicate gets exactly one DuplicateAssertion
\* failure and neither a TypeMismatch nor an "expected an error" failure.
C5_DuplicateOnly ==
    AssertionRunDone =>
        \A ln \in Range(duplicates) :
            /\ FailuresAt("DuplicateAssertion", ln) = 1
            /\ FailuresAt("TypeMismatch", ln) = 0
            /\ FailuresAt("ExpectedError", ln) = 0

\* The line the k-th token starts on, and the line it ends on.
StartLine(txt, k) == lineOfPosition(TokenPos(txt, k), txt)
EndLine(txt, k) == lineOfPosition(TokenPos(txt, k) + TokLen(txt[k]) - 1, txt)

\* The line C6 gives the directive that is the k-th token: the next line when
\* no token other than whitespace and comments precedes it on its line, its
\* own line otherwise.
ClaimedLine(txt, k) ==
    IF \E j \in 1..(k - 1) :
           /\ txt[j].kind \in {"Token", "MultiLineToken"}
           /\ EndLine(txt, j) = StartLine(txt, k)
    THEN StartLine(txt, k)
    ELSE StartLine(txt, k) + 1

\* C6: the line recorded for a directive is the line the claim gives it.
C6_ApplicableLine ==
    (pc = "scan" /\ tokIdx > 1 /\ text[tokIdx - 1].kind \in {"ExpectType", "ExpectError"})
        => line = ClaimedLine(text, tokIdx - 1)

\* The run is over a file with assertions, and its loop over diagnostics,
\* respectively its loop over errorLines, has ended (by a throw, for the
\* latter, when addFailureAtLine threw).
AfterDiagnostics ==
    /\ ~isDeclarationFile /\ HasExpectText(text)
    /\ pc \in {"errors", "types", "unused", "done", "thrown"}

AfterErrors ==
    /\ ~isDeclarationFile /\ HasExpectText(text)
    /\ pc \in {"types", "unused", "done", "thrown"}

\* C7: in a file with assertions a line, whether a line of the text or a
\* line the scanner recorded, gets one "expected an error" failure if it is
\* an error line and no diagnostic of the list starts on it, and none
\* otherwise.
C7_MissingErrorIff ==
    AfterErrors =>
        \A ln \in (0..(NumLines(text) - 1)) \cup Range(errorLines) :
            FailuresAt("ExpectedError", ln) =
                IF /\ ln \in Range(errorLines)
                   /\ \A d \in 1..Len(diagnostics) :
                          lineOfPosition(diagnostics[d].start, text) # ln
                THEN 1 ELSE 0

\* C8: in a file with assertions a diagnostic of the file under test gives
\* exactly one failure if its starting line is not an error line, and none
\* if it is.
C8_UnexpectedDiagnosticIff ==
    AfterDiagnostics =>
        \A d \in 1..Len(diagnostics) :
            diagnostics[d].file = "sourceFile" =>
                FailuresOf(d) =
                    IF lineOfPosition(diagnostics[d].start, text) \in Range(errorLines)
                    THEN 0 ELSE 1

\* Two diagnostics on one unexpected line give two failures.
C8_Witness ==
    /\ AfterDiagnostics
    /\ pc = "done"
    /\ errorLines # <<>>
    /\ Len(diagnostics) = 2
    /\ diagnostics[1] = diagnostics[2]
    /\ diagnostics[1].file = "sourceFile"
    /\ FailuresOf(1) = 1
    /\ FailuresOf(2) = 1

\* C9: a diagnostic of another file always gives a failure, and never stands
\* for the error an expect-error line of the file under test expects.
C9_OtherFileDiagnostics ==
    AssertionRunDone =>
        /\ \A d \in 1..Len(diagnostics) :
               diagnostics[d].file = "other" => FailuresOf(d) = 1
        /\ \A ln \in Range(errorLines) :
               (\A d \in 1..Len(diagnostics) :
                    diagnostics[d].file = "sourceFile" =>
                        lineOfPosition(diagnostics[d].start, text) # ln)
               => FailuresAt("ExpectedError", ln) = 1

\* The $ExpectType directives scanned so far that were recorded for a line.
TypeDirectivesFor(ln) ==
    {k \in 1..(tokIdx - 1) :
         /\ text[k].kind = "ExpectType"
         /\ ScanFrom(ScanInit, SubSeq(text, 1, k), 1).line = ln}

RECURSIVE FirstRequests(_)
FirstRequests(rs) ==
    IF rs = <<>> THEN <<>>
    ELSE LET before == FirstRequests(SubSeq(rs, 1, Len(rs) - 1))
             pair   == [oldProgram |-> rs[Len(rs)].oldProgram,
                        versionName |-> rs[Len(rs)].versionName]
         IN  IF pair \in Range(before) THEN before ELSE Append(before, pair)

\* The position of a pair among the createProgram calls made.
CreatedAt(oldProgram, versionName) ==
    CHOOSE k \in 1..Len(created) :
        created[k] = [oldProgram |-> oldProgram, versionName |-> versionName]

\* C11: over any sequence of requests, the instances constructed are one per
\* pair requested, in the order of the pairs' first requests (so a later
\* request for a pair constructs nothing); the cache holds for each pair the
\* instance constructed for it, instances of different pairs are different,
\* and a request returns the instance of its own pair.
C11_OneInstancePerPair ==
    /\ created = FirstRequests(runs)
    /\ \A k \in 1..Len(created) :
           /\ CacheHas(versionToProgram(programCache, created[k].oldProgram),
                       created[k].versionName)
           /\ getProgram(programCache, created[k].versionName, created[k].oldProgram).id = k
    /\ \A h \in 1..Len(programCache) :
           \A e \in 1..Len(programCache[h].versionToProgram) :
               [oldProgram |-> programCache[h].oldProgram,
                versionName |-> programCache[h].versionToProgram[e].versionName]
                   \in Range(created)
    /\ runs # <<>> =>
           newProgram.id = CreatedAt(runs[Len(runs)].oldProgram, runs[Len(runs)].versionName)

\* A pair is requested again after a request for the same version under
\* another host program and one for another version under the same host
\* program: the first instance is returned and nothing is constructed.
C11_Witness ==
    /\ Len(runs) = 4
    /\ runs[1].oldProgram = runs[4].oldProgram
    /\ runs[1].versionName = runs[4].versionName
    /\ runs[2].oldProgram # runs[1].oldProgram
    /\ runs[2].versionName = runs[1].versionName
    /\ runs[3].oldProgram = runs[1].oldProgram
    /\ runs[3].versionName # runs[1].versionName
    /\ Len(created) = 3
    /\ newProgram.id = 1

\* C12: normalizing a normalized type text returns it unchanged.
C12_Idempotent ==
    Len(normalized) >= 2 => normalized[2] = normalized[1]

\* C13: a union of intersections of atoms normalizes to the same text
\* whatever the order of its members and of the members of each
\* intersection.
C13_OrderInsensitive ==
    (normalized # <<>> /\ IsUnionOfIntersections(typeString)) =>
        normalizedReordered = normalized[1]

\* "(A & B) | C" and "C | (B & A)" were normalized.
C13_Witness ==
    /\ normalized # <<>>
    /\ typeString = <<"(", "A", "&", "B", ")", "|", "C">>
    /\ reordered = <<"C", "|", "(", "B", "&", "A", ")">>
    /\ normalizedReordered = <<"(", "A", "&", "B", ")", "|", "C">>

\* The lines parseAssertions recorded for the text.
RecordedLines ==
    Range(parseAssertions(text).errorLines)
        \cup Range(MapKeys(parseAssertions(text).typeAssertions))
        \cup Range(parseAssertions(text).duplicates)

\* C14: a run over a file with assertions never ends in a throw, and every
\* line the scanner recorded is a line of the text.
C14_RunCompletes ==
    (~isDeclarationFile /\ HasExpectText(text)) =>
        /\ pc # "thrown"
        /\ pc \notin {"start", "scan"} => \A ln \in RecordedLines : LineExists(ln, text)

\* The scenario of C15: three configured versions, every one but the newest
\* reports a failure, and "next" passes.
AllButNewestFail ==
    /\ Len(olderInstalls) = 3
    /\ Passes("next")
    /\ ~Passes(olderInstalls[1])
    /\ ~Passes(olderInstalls[2])
    /\ Passes(olderInstalls[3])

\* What a run of the b-th configured version returns when it is given the
\* entry above it as nextHigherVersion.
ScanReport(b) ==
    walk(text, isDeclarationFile, programs[olderInstalls[b]].diagnostics,
         programs[olderInstalls[b]].nodes, olderInstalls[b], EntryAbove(b)).failures

\* C15, as stated: in the scenario the search returns what the newest
\* configured version reports, the run being annotated with "next".
C15_ReportsNewestConfigured ==
    (spc = "done" /\ AllButNewestFail) =>
        /\ result = ScanReport(3)
        /\ runs[Len(runs)].versionName = olderInstalls[3]
        /\ runs[Len(runs)].nextHigherVersion = "next"

\* C15, amended: in the scenario the search returns what the middle version
\* reports, which is the newest configured version with failures, the run
\* being annotated with the name of the newest configured version; the
\* newest configured version was run before it, annotated with "next".
C15_ReportsNewestFailing ==
    (spc = "done" /\ AllButNewestFail) =>
        /\ result = ScanReport(2)
        /\ result # <<>>
        /\ Len(runs) = 4
        /\ runs[3].versionName = olderInstalls[3]
        /\ runs[3].nextHigherVersion = "next"
        /\ runs[4].versionName = olderInstalls[2]
        /\ runs[4].nextHigherVersion = olderInstalls[3]
        /\ \A k \in 1..Len(result) :
               result[k].kind = "Diagnostic" =>
                   result[k].intro.nextHigherVersion = olderInstalls[3]

\* The scenario ended with a diagnostic failure of the middle version.
C15_Witness ==
    /\ spc = "done"
    /\ AllButNewestFail
    /\ \E k \in 1..Len(result) :
           /\ result[k].kind = "Diagnostic"
           /\ result[k].intro = [versionName |-> olderInstalls[2],
                                 nextHigherVersion |-> olderInstalls[3]]

\* C16: when "next" and the oldest configured version yield no failures, the
\* search returns an empty list after exactly two runs, "next" then the oldest
\* version, whatever the versions between would report.
C16_ExtremesFirst ==
    (spc = "done" /\ Len(olderInstalls) >= 1 /\ Passes("next") /\ Passes(olderInstalls[1])) =>
        /\ result = <<>>
        /\ runs = <<[oldProgram |-> lintProgram, versionName |-> "next",
                     nextHigherVersion |-> "undefined"],
                    [oldProgram |-> lintProgram, versionName |-> olderInstalls[1],
                     nextHigherVersion |-> "undefined"]>>

\* The search returned an empty list while the two newer configured versions
\* would both report failures.
C16_Witness ==
    /\ spc = "done"
    /\ Len(olderInstalls) = 3
    /\ Passes("next")
    /\ Passes(olderInstalls[1])
    /\ ~Passes(olderInstalls[2])
    /\ ~Passes(olderInstalls[3])
    /\ Len(runs) = 2
    /\ result = <<>>

\* The nodes that start on a line, and the first of them in pre-order.
NodesOn(ln) == {n \in 1..Len(nodes) : lineOfPosition(nodes[n].start, text) = ln}
FirstNodeOn(ln) == CHOOSE n \in NodesOn(ln) : \A m \in NodesOn(ln) : n <= m

\* The type queries made for nodes that start on a line.
QueriesOn(ln) ==
    {k \in 1..Len(Queried) : lineOfPosition(nodes[Queried[k]].start, text) = ln}

\* The run over a file with assertions has ended, by returning or by a throw.
AssertionRunEnded ==
    /\ ~isDeclarationFile /\ HasExpectText(text)
    /\ pc \in {"done", "thrown"}

\* C17: every pending line ends with at most one failure, a TypeMismatch or
\* an AssertionMissingNode; at most one node is queried for it, the first
\* node in pre-order that starts on it (its expression, for an expression
\* statement); it is reported unmatched if and only if no node starts on it;
\* and no query is made for a line that is not pending.
C17_ConsumedOnce ==
    AssertionRunEnded =>
        /\ Len(Queried) <= Len(Pending)
        /\ \A k \in 1..Len(Queried) :
               MapHas(Pending, lineOfPosition(nodes[Queried[k]].start, text))
        /\ \A e \in Range(Pending) :
               /\ FailuresAt("TypeMismatch", e.line)
                      + FailuresAt("AssertionMissingNode", e.line) <= 1
               /\ Cardinality(QueriesOn(e.line)) <= 1
               /\ NodesOn(e.line) # {} =>
                      /\ Cardinality(QueriesOn(e.line)) = 1
                      /\ \A k \in QueriesOn(e.line) :
                             Queried[k] = Unwrap(nodes, FirstNodeOn(e.line))
               /\ (FailuresAt("AssertionMissingNode", e.line) = 1)
                      <=> (NodesOn(e.line) = {})

\* C18: when the run against "next" yields failures, the search returns
\* exactly those, none naming a next-higher version; "next" is the only
\* version run and the only program created.
C18_NextFailsReturnsNext ==
    (spc = "done" /\ ~Passes("next")) =>
        /\ result = Reported("next")
        /\ \A k \in 1..Len(result) :
               result[k].intro.nextHigherVersion \in {"undefined", NoIntro.nextHigherVersion}
        /\ runs = <<[oldProgram |-> lintProgram, versionName |-> "next",
                     nextHigherVersion |-> "undefined"]>>
        /\ created = <<[oldProgram |-> lintProgram, versionName |-> "next"]>>

\* "next" fails with a diagnostic while every configured version would fail
\* too.
C18_Witness ==
    /\ spc = "done"
    /\ ~Passes("next")
    /\ Len(olderInstalls) = 3
    /\ \A k \in 1..3 : ~Passes(olderInstalls[k])
    /\ \E k \in 1..Len(result) :
           /\ result[k].kind = "Diagnostic"
           /\ result[k].intro = [versionName |-> "next", nextHigherVersion |-> "undefined"]

\* C19: with an empty list of older versions and "next" yielding no failures
\* the search ends in the assertion error and never returns; with a
\* non-empty list the assertion never fails.
C19_AssertionOnEmptyList ==
    /\ (Len(olderInstalls) = 0 /\ Passes("next")) =>
           (spc \in {"start", "assert", "AssertionError"} /\ result = <<>>)
    /\ spc = "AssertionError" => (Len(olderInstalls) = 0 /\ Passes("next"))

\* The assertion failed after the run against "next".
C19_Witness ==
    /\ spc = "AssertionError"
    /\ Len(runs) = 1
    /\ runs[1].versionName = "next"
    /\ Passes("next")

====
